---- MODULE Spec2Model ----
(***************************************************************************)
(* Deadlock Detective: the resource-allocation graph held by App (nodes,   *)
(* edges and the handlers that edit them), the cycle detector              *)
(* detectDeadlock, and the advisory text produced by analyzeWithGemini.    *)
(*                                                                         *)
(* A Node is modelled by its id and type; its coordinates (x, y, vx, vy,   *)
(* fx, fy) are read and written by the renderer only and no handler or     *)
(* detector code reads them.                                               *)
(***************************************************************************)
EXTENDS Integers, Sequences, FiniteSets, TLC

VARIABLES
    nodes,        \* App state `nodes`: sequence of [id, type]
    edges,        \* App state `edges`: sequence of [id, source, target]
    result,       \* App state `result`: a DeadlockResult or NoResult (null)
    aiAnalysis,   \* App state `aiAnalysis`: the advisory text
    isAnalyzing,  \* App state `isAnalyzing`
    activeTab,    \* App state `activeTab`
    pending,      \* analyzeWithGemini calls awaiting the remote response
    last,         \* the handler that ran last: arguments, branch taken, alert
    ops,          \* number of handler invocations so far
    calls,        \* number of detectDeadlock calls made on the snapshot
    run           \* the detection run followed step by step: its locals and call stack

vars == <<nodes, edges, result, aiAnalysis, isAnalyzing, activeTab, pending, last, ops, calls, run>>

(***************************************************************************)
(* Bounds of the model.                                                    *)
(***************************************************************************)
MaxEdges == 3   \* longest edge list of a detector snapshot
MaxCalls == 2   \* detectDeadlock calls per snapshot
MaxOps == 4     \* handler invocations (clicks and gestures) in a session

(***************************************************************************)
(* types.ts                                                                *)
(***************************************************************************)
PROCESS == "PROCESS"
RESOURCE == "RESOURCE"
NodeType == {PROCESS, RESOURCE}

Node(id, type) == [id |-> id, type |-> type]
Edge(id, source, target) == [id |-> id, source |-> source, target |-> target]

NoResult == [hasDeadlock |-> FALSE, cycle |-> <<>>, involvedProcesses |-> <<>>,
             involvedResources |-> <<>>, isNull |-> TRUE]

DeadlockResult(hasCycle, cycleNodes, procs, ress) ==
    [hasDeadlock |-> hasCycle, cycle |-> cycleNodes, involvedProcesses |-> procs,
     involvedResources |-> ress, isNull |-> FALSE]

(***************************************************************************)
(* Array helpers with the semantics of the JavaScript methods used.        *)
(***************************************************************************)
Range(s) == {s[i] : i \in 1..Len(s)}

\* Array.prototype.indexOf, 1-based; 0 stands for -1 (not found).
indexOf(s, x) ==
    IF \E i \in 1..Len(s) : s[i] = x
    THEN CHOOSE i \in 1..Len(s) : s[i] = x /\ \A j \in 1..(i - 1) : s[j] # x
    ELSE 0

\* slice as `path.slice(0)`: the whole path, whatever the start index
slice_WholePath(s, start) == s

\* slice that also stores the closing vertex at the end of the sequence
slice_Closed(s, start) ==
    IF start = 0 THEN s ELSE Append(SubSeq(s, start, Len(s)), s[start])

\* path.slice(start) for a 1-based start index; slice(-1) keeps the last element.
slice(s, start) ==
    IF start = 0 THEN (IF Len(s) = 0 THEN <<>> ELSE <<s[Len(s)]>>)
    ELSE SubSeq(s, start, Len(s))

\* path.pop()
pop(s) == IF Len(s) = 0 THEN s ELSE SubSeq(s, 1, Len(s) - 1)

\* nodes.find(n => n.id === id): the first node with that id, if any.
hasNode(ns, id) == \E i \in 1..Len(ns) : ns[i].id = id
findNode(ns, id) == ns[CHOOSE i \in 1..Len(ns) : ns[i].id = id /\ \A j \in 1..(i - 1) : ns[j].id # id]

\* nodes.find(n => n.id === id)?.type === type
typeIs(ns, id, type) == hasNode(ns, id) /\ findNode(ns, id).type = type

nodeIds(ns) == {ns[i].id : i \in 1..Len(ns)}

(***************************************************************************)
(* deadlockService.ts: detectDeadlock                                      *)
(***************************************************************************)
RECURSIVE addTargets_Undirected(_, _, _)
\* adjacency filled in both directions, as for an undirected graph
addTargets_Undirected(adj, es, i) ==
    IF i > Len(es) THEN adj
    ELSE LET a1 == IF es[i].source \in DOMAIN adj
                   THEN [adj EXCEPT ![es[i].source] = Append(@, es[i].target)] ELSE adj
             a2 == IF es[i].target \in DOMAIN a1
                   THEN [a1 EXCEPT ![es[i].target] = Append(@, es[i].source)] ELSE a1
         IN addTargets_Undirected(a2, es, i + 1)

RECURSIVE addTargets(_, _, _)
\* edges.forEach(e => { if (adj[e.source]) adj[e.source].push(e.target) })
addTargets(adj, es, i) ==
    IF i > Len(es) THEN adj
    ELSE IF es[i].source \in DOMAIN adj
         THEN addTargets([adj EXCEPT ![es[i].source] = Append(@, es[i].target)], es, i + 1)
         ELSE addTargets(adj, es, i + 1)

\* The adjacency list: one empty array per node id, then one push per edge.
buildAdj(ns, es) == addTargets([id \in nodeIds(ns) |-> <<>>], es, 1)

\* const visited = new Set(); const recursionStack = new Set(); let cycleNodes = [];
\* `path` is the array the running top-level dfs call was given, `ret` the
\* value the last dfs call returned.
freshWork == [visited |-> {}, recursionStack |-> {}, cycleNodes |-> <<>>,
              path |-> <<>>, ret |-> FALSE]

\* no detection run is being followed
NoRun == [pc |-> "idle", k |-> 0, frames |-> <<>>, w |-> freshWork, entered |-> <<>>]

RECURSIVE dfs(_, _, _)
RECURSIVE dfsNeighbors(_, _, _, _, _)

\* dfs loop without the recursionStack test: any visited neighbour closes a cycle
dfsNeighbors_NoStackCheck(adj, nodeId, neighbors, i, w) ==
    IF i > Len(neighbors)
    THEN [w EXCEPT !.recursionStack = @ \ {nodeId}, !.path = pop(@), !.ret = FALSE]
    ELSE LET neighbor == neighbors[i] IN
         IF neighbor \notin w.visited
         THEN LET r == dfs(adj, neighbor, w) IN
              IF r.ret THEN r ELSE dfsNeighbors(adj, nodeId, neighbors, i + 1, r)
         ELSE [w EXCEPT !.cycleNodes = slice(w.path, indexOf(w.path, neighbor)),
                        !.ret = TRUE]

\* dfs loop that extracts cycleNodes for every visited neighbour, before the
\* recursionStack test
dfsNeighbors_EagerSlice(adj, nodeId, neighbors, i, w) ==
    IF i > Len(neighbors)
    THEN [w EXCEPT !.recursionStack = @ \ {nodeId}, !.path = pop(@), !.ret = FALSE]
    ELSE LET neighbor == neighbors[i] IN
         IF neighbor \notin w.visited
         THEN LET r == dfs(adj, neighbor, w) IN
              IF r.ret THEN r ELSE dfsNeighbors(adj, nodeId, neighbors, i + 1, r)
         ELSE LET s == [w EXCEPT !.cycleNodes = slice(w.path, indexOf(w.path, neighbor))] IN
              IF neighbor \in w.recursionStack
              THEN [s EXCEPT !.ret = TRUE]
              ELSE dfsNeighbors(adj, nodeId, neighbors, i + 1, s)

\* The for loop of dfs over `neighbors` from position i, then the backtrack.
dfsNeighbors(adj, nodeId, neighbors, i, w) ==
    IF i > Len(neighbors)
    THEN [w EXCEPT !.recursionStack = @ \ {nodeId}, !.path = pop(@), !.ret = FALSE]
    ELSE LET neighbor == neighbors[i] IN
         IF neighbor \notin w.visited
         THEN LET r == dfs(adj, neighbor, w) IN
              IF r.ret THEN r ELSE dfsNeighbors(adj, nodeId, neighbors, i + 1, r)
         ELSE IF neighbor \in w.recursionStack
         THEN [w EXCEPT !.cycleNodes = slice(w.path, indexOf(w.path, neighbor)),
                        !.ret = TRUE]
         ELSE dfsNeighbors(adj, nodeId, neighbors, i + 1, w)

dfs(adj, nodeId, w) ==
    LET entered == [w EXCEPT !.visited = @ \cup {nodeId},
                             !.recursionStack = @ \cup {nodeId},
                             !.path = Append(@, nodeId)]
        neighbors == IF nodeId \in DOMAIN adj THEN adj[nodeId] ELSE <<>>
    IN dfsNeighbors(adj, nodeId, neighbors, 1, entered)

\* the search started from the first vertex only
topLoop_FirstOnly(adj, ns, i, w) ==
    IF i > Len(ns) \/ i > 1 THEN [w EXCEPT !.ret = FALSE]
    ELSE dfs(adj, ns[i].id, [w EXCEPT !.path = <<>>])

RECURSIVE topLoop(_, _, _, _)
\* for (const node of nodes) { if (!visited.has(node.id)) { if (dfs(node.id, [])) {...break} } }
topLoop(adj, ns, i, w) ==
    IF i > Len(ns) THEN [w EXCEPT !.ret = FALSE]
    ELSE IF ns[i].id \notin w.visited
         THEN LET r == dfs(adj, ns[i].id, [w EXCEPT !.path = <<>>]) IN
              IF r.ret THEN r ELSE topLoop(adj, ns, i + 1, r)
         ELSE topLoop(adj, ns, i + 1, w)

\* filter that asks for any node of the type, not for the node with the id
involved_AnyNode(ns, cycleNodes, type) ==
    SelectSeq(cycleNodes, LAMBDA id : \E i \in 1..Len(ns) : ns[i].type = type)

\* cycleNodes.filter(id => nodes.find(n => n.id === id)?.type === type)
involved(ns, cycleNodes, type) ==
    SelectSeq(cycleNodes, LAMBDA id : typeIs(ns, id, type))

detectDeadlock(ns, es) ==
    LET w == topLoop(buildAdj(ns, es), ns, 1, freshWork) IN
    DeadlockResult(w.ret, w.cycleNodes,
                   involved(ns, w.cycleNodes, PROCESS),
                   involved(ns, w.cycleNodes, RESOURCE))

(***************************************************************************)
(* App.tsx: the default instance.                                          *)
(***************************************************************************)
createInitialNodes ==
    << Node("P1", PROCESS), Node("P2", PROCESS), Node("R1", RESOURCE), Node("R2", RESOURCE) >>

createInitialEdges ==
    << Edge("e1", "R1", "P1"), Edge("e2", "P1", "R2"), Edge("e3", "R2", "P2") >>

(***************************************************************************)
(* App.tsx: the handlers.  A handler runs to completion on the state of    *)
(* the render it was created in, which is the current state: React         *)
(* re-renders between two events.  `last` records the handler, its         *)
(* arguments a and b ("" when it has none), the branch of its code that    *)
(* ran (for a removal: whether the id named a live element) and the text   *)
(* of the alert it showed ("" when none).                                  *)
(***************************************************************************)
Handler(op, a, b, branch, alert) ==
    [op |-> op, a |-> a, b |-> b, branch |-> branch, alert |-> alert]
NoHandler == Handler("none", "", "", "", "")

\* one more handler invocation
invoked == ops < MaxOps /\ ops' = ops + 1

InvalidEdgeAlert == "Edges must be between a Process and a Resource."
NoDeadlockText == "No deadlock detected. The system is in a safe state."
NoAnalysisText == "No analysis could be generated."
ServiceErrorText == "Error connecting to AI service. Please ensure your API key is configured correctly."

\* Date.now().toString().slice(-4): the last four decimal digits of the time
SuffixMod == 10000
Digit(d) == ToString(d)
Suffix4(t) ==
    LET r == t % SuffixMod IN
    Digit(r \div 1000) \o Digit((r \div 100) % 10) \o Digit((r \div 10) % 10) \o Digit(r % 10)

\* the values Date.now() takes, in ms from the start of the session: at the
\* start, and one period of the four-digit suffix later
Times == {0, SuffixMod}

countOfType(ns, type) == Len(SelectSeq(ns, LAMBDA n : n.type = type))

newNodeId(ns, type, t) ==
    (IF type = PROCESS THEN "P" ELSE "R") \o ToString(countOfType(ns, type) + 1)
        \o "-" \o Suffix4(t)

newEdgeId(t) == "e-" \o ToString(t)

\* the ids a caller may hold: those of the default instance and the live ones
NodeIdInputs == nodeIds(createInitialNodes) \cup nodeIds(nodes)
EdgeIdInputs == {createInitialEdges[i].id : i \in 1..Len(createInitialEdges)}
                    \cup {edges[i].id : i \in 1..Len(edges)}

handleAddNode(type, t) ==
    /\ invoked
    /\ nodes' = Append(nodes, Node(newNodeId(nodes, type, t), type))
    /\ last' = Handler("handleAddNode", type, "", "", "")
    /\ UNCHANGED <<edges, result, aiAnalysis, isAnalyzing, activeTab, pending, calls, run>>

\* what a removal by id found: a live element of that id, or none
found(present) == IF present THEN "removed" ELSE "absent"

\* handleRemoveNode with the edge filter on e.source alone
handleRemoveNode_SourceOnly(id) ==
    /\ invoked
    /\ nodes' = SelectSeq(nodes, LAMBDA n : n.id # id)
    /\ edges' = SelectSeq(edges, LAMBDA e : e.source # id)
    /\ last' = Handler("handleRemoveNode", id, "", found(hasNode(nodes, id)), "")
    /\ UNCHANGED <<result, aiAnalysis, isAnalyzing, activeTab, pending, calls, run>>

\* handleRemoveNode without setEdges
handleRemoveNode_NoCascade(id) ==
    /\ invoked
    /\ nodes' = SelectSeq(nodes, LAMBDA n : n.id # id)
    /\ last' = Handler("handleRemoveNode", id, "", found(hasNode(nodes, id)), "")
    /\ UNCHANGED <<edges, result, aiAnalysis, isAnalyzing, activeTab, pending, calls, run>>

handleRemoveNode(id) ==
    /\ invoked
    /\ nodes' = SelectSeq(nodes, LAMBDA n : n.id # id)
    /\ edges' = SelectSeq(edges, LAMBDA e : e.source # id /\ e.target # id)
    /\ last' = Handler("handleRemoveNode", id, "", found(hasNode(nodes, id)), "")
    /\ UNCHANGED <<result, aiAnalysis, isAnalyzing, activeTab, pending, calls, run>>

\* handleAddEdge without the comparison of the two node types
handleAddEdge_NoTypeCheck(sourceId, targetId, t) ==
    /\ invoked
    /\ IF ~hasNode(nodes, sourceId) \/ ~hasNode(nodes, targetId)
       THEN /\ edges' = edges
            /\ last' = Handler("handleAddEdge", sourceId, targetId, "missing endpoint", "")
       ELSE IF \E i \in 1..Len(edges) :
                    edges[i].source = sourceId /\ edges[i].target = targetId
       THEN /\ edges' = edges
            /\ last' = Handler("handleAddEdge", sourceId, targetId, "duplicate", "")
       ELSE /\ edges' = Append(edges, Edge(newEdgeId(t), sourceId, targetId))
            /\ last' = Handler("handleAddEdge", sourceId, targetId, "added", "")
    /\ UNCHANGED <<nodes, result, aiAnalysis, isAnalyzing, activeTab, pending, calls, run>>

\* handleAddEdge without the test that both endpoints were found
handleAddEdge_NoEndpointCheck(sourceId, targetId, t) ==
    /\ invoked
    /\ IF hasNode(nodes, sourceId) /\ hasNode(nodes, targetId)
          /\ findNode(nodes, sourceId).type = findNode(nodes, targetId).type
       THEN /\ edges' = edges
            /\ last' = Handler("handleAddEdge", sourceId, targetId, "same type", InvalidEdgeAlert)
       ELSE IF \E i \in 1..Len(edges) :
                    edges[i].source = sourceId /\ edges[i].target = targetId
       THEN /\ edges' = edges
            /\ last' = Handler("handleAddEdge", sourceId, targetId, "duplicate", "")
       ELSE /\ edges' = Append(edges, Edge(newEdgeId(t), sourceId, targetId))
            /\ last' = Handler("handleAddEdge", sourceId, targetId, "added", "")
    /\ UNCHANGED <<nodes, result, aiAnalysis, isAnalyzing, activeTab, pending, calls, run>>

\* handleAddEdge without the search for an edge of the same source and target
handleAddEdge_NoDuplicateCheck(sourceId, targetId, t) ==
    /\ invoked
    /\ IF ~hasNode(nodes, sourceId) \/ ~hasNode(nodes, targetId)
       THEN /\ edges' = edges
            /\ last' = Handler("handleAddEdge", sourceId, targetId, "missing endpoint", "")
       ELSE IF findNode(nodes, sourceId).type = findNode(nodes, targetId).type
       THEN /\ edges' = edges
            /\ last' = Handler("handleAddEdge", sourceId, targetId, "same type", InvalidEdgeAlert)
       ELSE /\ edges' = Append(edges, Edge(newEdgeId(t), sourceId, targetId))
            /\ last' = Handler("handleAddEdge", sourceId, targetId, "added", "")
    /\ UNCHANGED <<nodes, result, aiAnalysis, isAnalyzing, activeTab, pending, calls, run>>

handleAddEdge(sourceId, targetId, t) ==
    /\ invoked
    /\ IF ~hasNode(nodes, sourceId) \/ ~hasNode(nodes, targetId)
       THEN /\ edges' = edges
            /\ last' = Handler("handleAddEdge", sourceId, targetId, "missing endpoint", "")
       ELSE IF findNode(nodes, sourceId).type = findNode(nodes, targetId).type
       THEN /\ edges' = edges
            /\ last' = Handler("handleAddEdge", sourceId, targetId, "same type", InvalidEdgeAlert)
       ELSE IF \E i \in 1..Len(edges) :
                    edges[i].source = sourceId /\ edges[i].target = targetId
       THEN /\ edges' = edges
            /\ last' = Handler("handleAddEdge", sourceId, targetId, "duplicate", "")
       ELSE /\ edges' = Append(edges, Edge(newEdgeId(t), sourceId, targetId))
            /\ last' = Handler("handleAddEdge", sourceId, targetId, "added", "")
    /\ UNCHANGED <<nodes, result, aiAnalysis, isAnalyzing, activeTab, pending, calls, run>>

\* handleRemoveEdge by splice(findIndex(...), 1): an id that is not found gives
\* the index -1, and splice(-1, 1) removes the last edge
handleRemoveEdge_Splice(id) ==
    /\ invoked
    /\ edges' = IF \E i \in 1..Len(edges) : edges[i].id = id
                THEN SelectSeq(edges, LAMBDA e : e.id # id)
                ELSE SubSeq(edges, 1, Len(edges) - 1)
    /\ last' = Handler("handleRemoveEdge", id, "",
                        found(\E i \in 1..Len(edges) : edges[i].id = id), "")
    /\ UNCHANGED <<nodes, result, aiAnalysis, isAnalyzing, activeTab, pending, calls, run>>

handleRemoveEdge(id) ==
    /\ invoked
    /\ edges' = SelectSeq(edges, LAMBDA e : e.id # id)
    /\ last' = Handler("handleRemoveEdge", id, "",
                        found(\E i \in 1..Len(edges) : edges[i].id = id), "")
    /\ UNCHANGED <<nodes, result, aiAnalysis, isAnalyzing, activeTab, pending, calls, run>>

\* handleReset without setResult(null)
handleReset_KeepsResult ==
    /\ invoked
    /\ nodes' = createInitialNodes
    /\ edges' = createInitialEdges
    /\ aiAnalysis' = ""
    /\ activeTab' = "editor"
    /\ last' = Handler("handleReset", "", "", "", "")
    /\ UNCHANGED <<result, isAnalyzing, pending, calls, run>>

handleReset ==
    /\ invoked
    /\ nodes' = createInitialNodes
    /\ edges' = createInitialEdges
    /\ result' = NoResult
    /\ aiAnalysis' = ""
    /\ activeTab' = "editor"
    /\ last' = Handler("handleReset", "", "", "", "")
    /\ UNCHANGED <<isAnalyzing, pending, calls, run>>

RECURSIVE join(_, _)
\* Array.prototype.join
join(s, sep) ==
    IF Len(s) = 0 THEN ""
    ELSE IF Len(s) = 1 THEN s[1]
    ELSE s[1] \o sep \o join(Tail(s), sep)

\* the line of the prompt that names the cycle; the text the service returns
\* is an analysis of the prompt it was sent
cycleLine(r) == join(r.cycle, " -> ") \o " -> " \o r.cycle[1]
analysisOf(r) == "Analysis of " \o cycleLine(r)

\* runDetection up to the await: the detection, setResult, and for a deadlock
\* the call of analyzeWithGemini, which is left awaiting the response
runDetection ==
    LET detectionResult == detectDeadlock(nodes, edges) IN
    /\ invoked
    /\ result' = detectionResult
    /\ activeTab' = "analysis"
    /\ IF detectionResult.hasDeadlock
       THEN /\ isAnalyzing' = TRUE
            /\ pending' = Append(pending, detectionResult)
            /\ aiAnalysis' = aiAnalysis
       ELSE /\ aiAnalysis' = NoDeadlockText
            /\ UNCHANGED <<isAnalyzing, pending>>
    /\ last' = Handler("runDetection", "", "",
                        IF detectionResult.hasDeadlock THEN "deadlock" ELSE "safe", "")
    /\ UNCHANGED <<nodes, edges, calls, run>>

\* what an analyzeWithGemini call resolves to: the response text, the
\* fallback for an empty text, or the message of the catch block
Outcomes == {"text", "empty", "error"}
analysisText(r, outcome) ==
    IF outcome = "text" THEN analysisOf(r)
    ELSE IF outcome = "empty" THEN NoAnalysisText
    ELSE ServiceErrorText

\* the rest of runDetection if a failure of the call were not caught: the
\* rejection leaves runDetection before setAiAnalysis and setIsAnalyzing(false)
analysisResolved_Uncaught(i, outcome) ==
    /\ i \in 1..Len(pending)
    /\ IF outcome = "error"
       THEN UNCHANGED <<aiAnalysis, isAnalyzing>>
       ELSE /\ aiAnalysis' = analysisText(pending[i], outcome)
            /\ isAnalyzing' = FALSE
    /\ pending' = SubSeq(pending, 1, i - 1) \o SubSeq(pending, i + 1, Len(pending))
    /\ last' = Handler("analysisResolved", "", "", outcome, "")
    /\ UNCHANGED <<nodes, edges, result, activeTab, ops, calls, run>>

\* the rest of runDetection, run when the awaited call i resolves
analysisResolved(i, outcome) ==
    /\ i \in 1..Len(pending)
    /\ aiAnalysis' = analysisText(pending[i], outcome)
    /\ isAnalyzing' = FALSE
    /\ pending' = SubSeq(pending, 1, i - 1) \o SubSeq(pending, i + 1, Len(pending))
    /\ last' = Handler("analysisResolved", "", "", outcome, "")
    /\ UNCHANGED <<nodes, edges, result, activeTab, ops, calls, run>>

Init ==
    /\ nodes = createInitialNodes
    /\ edges = createInitialEdges
    /\ result = NoResult
    /\ aiAnalysis = ""
    /\ isAnalyzing = FALSE
    /\ activeTab = "editor"
    /\ pending = <<>>
    /\ last = NoHandler
    /\ ops = 0
    /\ calls = 0
    /\ run = NoRun

Next ==
    \/ \E type \in NodeType, t \in Times : handleAddNode(type, t)
    \/ \E id \in NodeIdInputs : handleRemoveNode(id)
    \/ \E s \in NodeIdInputs, d \in NodeIdInputs, t \in Times : handleAddEdge(s, d, t)
    \/ \E id \in EdgeIdInputs : handleRemoveEdge(id)
    \/ handleReset
    \/ runDetection
    \/ \E i \in 1..Len(pending), outcome \in Outcomes : analysisResolved(i, outcome)

Spec == Init /\ [][Next]_vars

(***************************************************************************)
(* Detector snapshots: every graph the detector is applied to directly.    *)
(* The vertices are the default vertices in any insertion order; the edge  *)
(* list is any list of at most MaxEdges edges over the vertices present.   *)
(* Over the vertices of GeneralIds every ordered pair may be an edge       *)
(* (self-loops and same-type edges included); snapshots on more vertices   *)
(* carry PROCESS/RESOURCE edges only, as handleAddEdge admits.             *)
(***************************************************************************)
GeneralIds == {"P1", "P2", "R1"}

RECURSIVE Orderings(_)
\* every sequence listing each element of S exactly once
Orderings(S) ==
    IF S = {} THEN {<<>>}
    ELSE UNION {{Append(o, x) : o \in Orderings(S \ {x})} : x \in S}

SnapshotNodes == UNION {Orderings(S) : S \in SUBSET Range(createInitialNodes)}

SnapshotPairs(ns) ==
    IF nodeIds(ns) \subseteq GeneralIds
    THEN nodeIds(ns) \X nodeIds(ns)
    ELSE {p \in nodeIds(ns) \X nodeIds(ns) : findNode(ns, p[1]).type # findNode(ns, p[2]).type}

SnapshotEdges(ns) ==
    UNION {{[i \in 1..n |-> Edge("e" \o ToString(i), f[i][1], f[i][2])] :
                f \in [1..n -> SnapshotPairs(ns)]} : n \in 0..MaxEdges}

InitDetect ==
    /\ nodes \in SnapshotNodes
    /\ edges \in SnapshotEdges(nodes)
    /\ result = NoResult
    /\ aiAnalysis = ""
    /\ isAnalyzing = FALSE
    /\ activeTab = "editor"
    /\ pending = <<>>
    /\ last = NoHandler
    /\ ops = 0
    /\ calls = 0
    /\ run = NoRun

\* a detector that drains the edge array while it builds the adjacency list
callDetectDeadlock_DrainsEdges ==
    /\ calls < MaxCalls
    /\ result' = detectDeadlock(nodes, edges)
    /\ edges' = <<>>
    /\ calls' = calls + 1
    /\ UNCHANGED <<nodes, aiAnalysis, isAnalyzing, activeTab, pending, last, ops, run>>

\* One call detectDeadlock(nodes, edges) by a caller that keeps the value returned.
callDetectDeadlock ==
    /\ calls < MaxCalls
    /\ result' = detectDeadlock(nodes, edges)
    /\ calls' = calls + 1
    /\ UNCHANGED <<nodes, edges, aiAnalysis, isAnalyzing, activeTab, pending, last, ops, run>>

NextDetect == callDetectDeadlock

SpecDetect == InitDetect /\ [][NextDetect]_vars

(***************************************************************************)
(* One detection run step by step.  run.pc is "loop" in the for loop over  *)
(* nodes (run.k its position), "dfs" inside dfs calls and "done" after the *)
(* return; run.frames is the stack of dfs calls, each with its nodeId and  *)
(* the position i of the neighbour its for loop is at; run.w holds the     *)
(* locals visited, recursionStack, cycleNodes and path; run.entered lists, *)
(* in order, the nodeId of every dfs call made.                            *)
(*                                                                         *)
(* The snapshots of a run are over the ids of GeneralIds: the vertices are *)
(* any of them, in the order of the default instance, and an edge is any   *)
(* ordered pair of the ids, so that an edge may repeat another, join a     *)
(* vertex to itself, or have a source or target that is not a vertex of    *)
(* the snapshot.  With every ordered pair admitted, another order of the   *)
(* vertices is a renaming of one of these snapshots.                       *)
(***************************************************************************)
RunNodes == {SelectSeq(createInitialNodes, LAMBDA n : n.id \in S) : S \in SUBSET GeneralIds}

RunEdges ==
    UNION {{[i \in 1..n |-> Edge("e" \o ToString(i), f[i][1], f[i][2])] :
                f \in [1..n -> GeneralIds \X GeneralIds]} : n \in 0..MaxEdges}

InitDfs ==
    /\ nodes \in RunNodes
    /\ edges \in RunEdges
    /\ result = NoResult
    /\ aiAnalysis = ""
    /\ isAnalyzing = FALSE
    /\ activeTab = "editor"
    /\ pending = <<>>
    /\ last = NoHandler
    /\ ops = 0
    /\ calls = 0
    /\ run = [pc |-> "loop", k |-> 1, frames |-> <<>>, w |-> freshWork, entered |-> <<>>]

adjOf(nodeId) ==
    LET adj == buildAdj(nodes, edges) IN
    IF nodeId \in DOMAIN adj THEN adj[nodeId] ELSE <<>>

\* the dfs call that is running and the neighbour its loop is at
top == run.frames[Len(run.frames)]
inLoopBody == run.pc = "dfs" /\ top.i <= Len(adjOf(top.nodeId))
neighbor == adjOf(top.nodeId)[top.i]

\* visited.add(nodeId); recursionStack.add(nodeId); path.push(nodeId)
enter(w, nodeId) ==
    [w EXCEPT !.visited = @ \cup {nodeId},
              !.recursionStack = @ \cup {nodeId},
              !.path = Append(@, nodeId)]

\* the return statement of detectDeadlock
returned(hasCycle, cycleNodes) ==
    DeadlockResult(hasCycle, cycleNodes,
                   involved(nodes, cycleNodes, PROCESS),
                   involved(nodes, cycleNodes, RESOURCE))

unchangedByRun ==
    UNCHANGED <<nodes, edges, aiAnalysis, isAnalyzing, activeTab, pending, last, ops, calls>>

\* for (const node of nodes): node.id is visited, next node
loopSkip ==
    /\ run.pc = "loop" /\ run.k <= Len(nodes)
    /\ nodes[run.k].id \in run.w.visited
    /\ run' = [run EXCEPT !.k = @ + 1]
    /\ UNCHANGED result
    /\ unchangedByRun

\* for (const node of nodes): node.id is not visited, dfs(node.id, []) is called
loopCall ==
    /\ run.pc = "loop" /\ run.k <= Len(nodes)
    /\ nodes[run.k].id \notin run.w.visited
    /\ run' = [run EXCEPT !.pc = "dfs",
                          !.frames = <<[nodeId |-> nodes[run.k].id, i |-> 1]>>,
                          !.w = enter([run.w EXCEPT !.path = <<>>], nodes[run.k].id),
                          !.entered = Append(@, nodes[run.k].id)]
    /\ UNCHANGED result
    /\ unchangedByRun

\* the for loop over nodes is exhausted: hasCycle stays false, the result is returned
loopEnd ==
    /\ run.pc = "loop" /\ run.k > Len(nodes)
    /\ run' = [run EXCEPT !.pc = "done", !.w = [run.w EXCEPT !.ret = FALSE]]
    /\ result' = returned(FALSE, run.w.cycleNodes)
    /\ unchangedByRun

\* if (!visited.has(neighbor)): dfs(neighbor, path) is called
dfsDescend ==
    /\ inLoopBody
    /\ neighbor \notin run.w.visited
    /\ run' = [run EXCEPT !.frames = Append(@, [nodeId |-> neighbor, i |-> 1]),
                          !.w = enter(run.w, neighbor),
                          !.entered = Append(@, neighbor)]
    /\ UNCHANGED result
    /\ unchangedByRun

\* else if (recursionStack.has(neighbor)): cycleNodes is cut from the path and
\* true is returned by every dfs call on the stack; hasCycle = true; break; return
dfsCycle ==
    /\ inLoopBody
    /\ neighbor \in run.w.visited
    /\ neighbor \in run.w.recursionStack
    /\ LET cycleNodes == slice(run.w.path, indexOf(run.w.path, neighbor)) IN
        /\ run' = [run EXCEPT !.pc = "done", !.frames = <<>>,
                              !.w = [run.w EXCEPT !.cycleNodes = cycleNodes, !.ret = TRUE]]
        /\ result' = returned(TRUE, cycleNodes)
    /\ unchangedByRun

\* a loop body that calls dfs for a visited neighbour that is off the stack
dfsSkip_Reenters ==
    /\ inLoopBody
    /\ neighbor \in run.w.visited
    /\ neighbor \notin run.w.recursionStack
    /\ run' = [run EXCEPT !.frames = Append(@, [nodeId |-> neighbor, i |-> 1]),
                          !.w = enter(run.w, neighbor),
                          !.entered = Append(@, neighbor)]
    /\ UNCHANGED result
    /\ unchangedByRun

\* the neighbour is visited and not on the recursion stack: next neighbour
dfsSkip ==
    /\ inLoopBody
    /\ neighbor \in run.w.visited
    /\ neighbor \notin run.w.recursionStack
    /\ run' = [run EXCEPT !.frames[Len(run.frames)].i = @ + 1]
    /\ UNCHANGED result
    /\ unchangedByRun

\* the neighbours are exhausted: recursionStack.delete(nodeId); path.pop();
\* return false, to the loop of the calling dfs or to the loop over nodes
dfsReturn ==
    /\ run.pc = "dfs" /\ top.i > Len(adjOf(top.nodeId))
    /\ LET w == [run.w EXCEPT !.recursionStack = @ \ {top.nodeId},
                              !.path = pop(@), !.ret = FALSE]
           callers == SubSeq(run.frames, 1, Len(run.frames) - 1)
       IN  run' = IF callers = <<>>
                  THEN [run EXCEPT !.pc = "loop", !.k = @ + 1, !.frames = <<>>, !.w = w]
                  ELSE [run EXCEPT !.frames = [callers EXCEPT ![Len(callers)].i = @ + 1],
                                   !.w = w]
    /\ UNCHANGED result
    /\ unchangedByRun

NextDfs ==
    \/ loopSkip
    \/ loopCall
    \/ loopEnd
    \/ dfsDescend
    \/ dfsCycle
    \/ dfsSkip
    \/ dfsReturn

\* detectDeadlock is synchronous code on one thread: a run that has a next
\* step takes it
SpecDfs == InitDfs /\ [][NextDfs]_vars /\ WF_vars(NextDfs)

(***************************************************************************)
(* A caller that detects on a snapshot, appends to the edge list a second  *)
(* edge between the endpoints of one it holds, and detects again.  The     *)
(* snapshots are those of a run; the list grows to MaxEdges + 1 edges.     *)
(***************************************************************************)
InitParallel ==
    /\ nodes \in RunNodes
    /\ edges \in RunEdges
    /\ result = NoResult
    /\ aiAnalysis = ""
    /\ isAnalyzing = FALSE
    /\ activeTab = "editor"
    /\ pending = <<>>
    /\ last = NoHandler
    /\ ops = 0
    /\ calls = 0
    /\ run = NoRun

\* edges with one more edge from edges[i].source to edges[i].target
withParallelEdge(es, i) ==
    Append(es, Edge("e" \o ToString(Len(es) + 1), es[i].source, es[i].target))

\* detectDeadlock(nodes, [...edges, parallel]) after a call on (nodes, edges)
callWithParallelEdge(i) ==
    /\ calls >= 1 /\ calls < MaxCalls
    /\ Len(edges) <= MaxEdges
    /\ i \in 1..Len(edges)
    /\ edges' = withParallelEdge(edges, i)
    /\ result' = detectDeadlock(nodes, edges')
    /\ calls' = calls + 1
    /\ UNCHANGED <<nodes, aiAnalysis, isAnalyzing, activeTab, pending, last, ops, run>>

NextParallel ==
    \/ callDetectDeadlock
    \/ \E i \in 1..Len(edges) : callWithParallelEdge(i)

SpecParallel == InitParallel /\ [][NextParallel]_vars


(***************************************************************************)
(* Graph-theoretic notions the detector properties are stated with.        *)
(***************************************************************************)
hasEdge(es, s, t) == \E i \in 1..Len(es) : es[i].source = s /\ es[i].target = t

\* the vertices with an edge from v
Successors(ns, es, v) == {t \in nodeIds(ns) : hasEdge(es, v, t)}

RECURSIVE ReachableFrom(_, _, _)
\* the vertices reachable from the set S by zero or more edges
ReachableFrom(ns, es, S) ==
    LET N == S \cup UNION {Successors(ns, es, v) : v \in S} IN
    IF N = S THEN S ELSE ReachableFrom(ns, es, N)

\* some vertex reaches itself by one or more edges
HasDirectedCycle(ns, es) ==
    \E v \in nodeIds(ns) : v \in ReachableFrom(ns, es, Successors(ns, es, v))

\* c lists distinct vertices, each with an edge to the next and the last to the first
IsCycleOf(ns, es, c) ==
    /\ Len(c) >= 1
    /\ \A i \in 1..Len(c) : c[i] \in nodeIds(ns)
    /\ \A i, j \in 1..Len(c) : i # j => c[i] # c[j]
    /\ \A i \in 1..(Len(c) - 1) : hasEdge(es, c[i], c[i + 1])
    /\ hasEdge(es, c[Len(c)], c[1])

\* a is b with elements left out, order kept
IsSubsequenceOf(a, b) ==
    /\ \A i \in 1..Len(a) : indexOf(b, a[i]) > 0
    /\ \A i, j \in 1..Len(a) : i < j => indexOf(b, a[i]) < indexOf(b, a[j])

KindOf(ns, id) == {n.type : n \in {m \in Range(ns) : m.id = id}}

detected == calls >= 1 /\ ~result.isNull

(***************************************************************************)
(* C1: for every snapshot, detectDeadlock returns hasDeadlock = true if    *)
(* and only if the directed graph contains a directed cycle.               *)
(***************************************************************************)
C1_DeadlockIffCycle ==
    detected => (result.hasDeadlock <=> HasDirectedCycle(nodes, edges))

\* a deadlock reported for a cycle that the first vertex of the list is not on,
\* in a graph where an acyclic part was explored first
C1_Witness ==
    /\ detected /\ result.hasDeadlock
    /\ Len(nodes) >= 3
    /\ nodes[1].id \notin Range(result.cycle)
    /\ \E i \in 1..Len(edges) : edges[i].source = nodes[1].id

(***************************************************************************)
(* C2: whenever hasDeadlock = true, cycle is a non-empty sequence of       *)
(* pairwise distinct vertex ids with an edge from each element to the     *)
(* next and from the last element back to the first.                       *)
(***************************************************************************)
C2_CycleIsWitness ==
    (detected /\ result.hasDeadlock) => IsCycleOf(nodes, edges, result.cycle)

\* the cycle reported is a proper suffix of the DFS path
C2_Witness ==
    /\ detected /\ result.hasDeadlock
    /\ LET w == topLoop(buildAdj(nodes, edges), nodes, 1, freshWork) IN
       /\ Len(w.path) > Len(result.cycle)
       /\ Len(result.cycle) >= 2

(***************************************************************************)
(* C3: in every result, involvedProcesses is the subsequence of cycle of   *)
(* the PROCESS vertices and involvedResources the subsequence of the       *)
(* RESOURCE vertices; they are disjoint and together cover cycle.          *)
(***************************************************************************)
C3_InvolvedPartition ==
    detected =>
        /\ IsSubsequenceOf(result.involvedProcesses, result.cycle)
        /\ IsSubsequenceOf(result.involvedResources, result.cycle)
        /\ Range(result.involvedProcesses) = {id \in Range(result.cycle) : KindOf(nodes, id) = {PROCESS}}
        /\ Range(result.involvedResources) = {id \in Range(result.cycle) : KindOf(nodes, id) = {RESOURCE}}
        /\ Range(result.involvedProcesses) \cap Range(result.involvedResources) = {}
        /\ Range(result.involvedProcesses) \cup Range(result.involvedResources) = Range(result.cycle)
        /\ Len(result.involvedProcesses) + Len(result.involvedResources) = Len(result.cycle)

\* a cycle with both kinds of vertex on it, split in two non-empty lists
C3_Witness ==
    /\ detected /\ result.hasDeadlock
    /\ Len(result.involvedProcesses) >= 1
    /\ Len(result.involvedResources) >= 1
    /\ Len(result.cycle) >= 2

(***************************************************************************)
(* C5: a graph made of a 2-vertex cycle (P -> R, R -> P) and an unrelated  *)
(* acyclic chain on other vertices, in every insertion order, yields       *)
(* hasDeadlock = true with every id of cycle one of the two vertices.      *)
(***************************************************************************)
TwoCyclePlusChain(ns, es, p, r) ==
    LET rest == SelectSeq(es, LAMBDA e : ~(e.source \in {p, r} /\ e.target \in {p, r})) IN
    /\ typeIs(ns, p, PROCESS) /\ typeIs(ns, r, RESOURCE)
    /\ hasEdge(es, p, r) /\ hasEdge(es, r, p)
    /\ ~hasEdge(es, p, p) /\ ~hasEdge(es, r, r)
    /\ rest # <<>>
    /\ \A i \in 1..Len(rest) : rest[i].source \notin {p, r} /\ rest[i].target \notin {p, r}
    /\ ~HasDirectedCycle(ns, rest)

C5_DisjointSubgraph ==
    detected =>
        \A p, r \in nodeIds(nodes) :
            TwoCyclePlusChain(nodes, edges, p, r) =>
                result.hasDeadlock /\ Range(result.cycle) \subseteq {p, r}

\* the chain is listed, and so explored, before the deadlocked pair
C5_Witness ==
    /\ detected
    /\ \E p, r \in nodeIds(nodes) :
        /\ TwoCyclePlusChain(nodes, edges, p, r)
        /\ nodes[1].id \notin {p, r}
        /\ edges[1].source = nodes[1].id
        /\ Range(result.cycle) = {p, r}

(***************************************************************************)
(* C6: whenever no cycle is found, and so for every graph with zero edges, *)
(* the result is hasDeadlock = false with cycle = [] and empty             *)
(* involvedProcesses and involvedResources.                                *)
(***************************************************************************)
C6_NoCycleEmptyResult ==
    detected =>
        /\ (edges = <<>> => ~result.hasDeadlock)
        /\ (~result.hasDeadlock =>
                /\ result.cycle = <<>>
                /\ result.involvedProcesses = <<>>
                /\ result.involvedResources = <<>>)

\* no deadlock in a graph where the search met a vertex already explored
C6_Witness ==
    /\ detected /\ ~result.hasDeadlock
    /\ \E i, j \in 1..Len(edges) :
        /\ i # j
        /\ edges[i].target = edges[j].target
        /\ edges[i].source # edges[j].source

justDetected == last.op = "runDetection" /\ ~result.isNull

edgePairs(es) == {<<es[i].source, es[i].target>> : i \in 1..Len(es)}

\* the graph has exactly the default vertices and exactly the edges of `pairs`,
\* one edge each, in any insertion order and under any edge ids
IsInstance(ns, es, pairs) ==
    /\ Range(ns) = Range(createInitialNodes)
    /\ Len(ns) = Len(createInitialNodes)
    /\ edgePairs(es) = pairs
    /\ Len(es) = Cardinality(pairs)

WaitChain == {<<"R1", "P1">>, <<"P1", "R2">>, <<"R2", "P2">>}
MinimalDeadlock == WaitChain \cup {<<"P2", "R1">>}

\* a is b rotated
IsRotationOf(a, b) ==
    /\ Len(a) = Len(b)
    /\ \E k \in 0..(Len(b) - 1) :
        \A i \in 1..Len(b) : a[i] = b[((i - 1 + k) % Len(b)) + 1]

(***************************************************************************)
(* C4: on the graph P1,P2,R1,R2 with edges R1->P1, P1->R2, R2->P2, P2->R1  *)
(* detection returns hasDeadlock = true, cycle is the four vertices in the *)
(* cyclic order P1->R2->P2->R1, involvedProcesses = {P1, P2} and           *)
(* involvedResources = {R1, R2}.                                           *)
(***************************************************************************)
C4_MinimalDeadlock ==
    (justDetected /\ IsInstance(nodes, edges, MinimalDeadlock)) =>
        /\ result.hasDeadlock
        /\ IsRotationOf(result.cycle, <<"P1", "R2", "P2", "R1">>)
        /\ Len(result.involvedProcesses) = 2
        /\ Range(result.involvedProcesses) = {"P1", "P2"}
        /\ Len(result.involvedResources) = 2
        /\ Range(result.involvedResources) = {"R1", "R2"}

\* Detect clicked after P2 -> R1 was connected in the default instance
C4_Witness ==
    /\ justDetected
    /\ IsInstance(nodes, edges, MinimalDeadlock)
    /\ edges[Len(edges)].source = "P2"
    /\ Len(pending) = 1

(***************************************************************************)
(* C7: on the default instance (P1,P2,R1,R2; R1->P1, P1->R2, R2->P2)       *)
(* detection returns hasDeadlock = false.                                  *)
(***************************************************************************)
C7_WaitChainSafe ==
    (justDetected /\ IsInstance(nodes, edges, WaitChain)) => ~result.hasDeadlock

\* Detect clicked on the default instance as created
C7_Witness ==
    /\ justDetected
    /\ nodes = createInitialNodes
    /\ edges = createInitialEdges
    /\ aiAnalysis = NoDeadlockText

(***************************************************************************)
(* C9: handleAddEdge between two PROCESS vertices or two RESOURCE vertices *)
(* is rejected as an invalid edge (the alert) and leaves the edge set and  *)
(* the vertex set unchanged.                                               *)
(***************************************************************************)
sameType(ns, s, d) ==
    /\ hasNode(ns, s) /\ hasNode(ns, d)
    /\ findNode(ns, s).type = findNode(ns, d).type

\* this step is handleAddEdge(last'.a, last'.b)
addEdgeStep == ops' = ops + 1 /\ last'.op = "handleAddEdge"

C9_EdgeTypeRejection ==
    [][(addEdgeStep /\ sameType(nodes, last'.a, last'.b)) =>
            /\ edges' = edges
            /\ nodes' = nodes
            /\ last'.alert = InvalidEdgeAlert]_vars

\* a connection of two distinct resources was attempted and refused
C9_Witness ==
    /\ last.op = "handleAddEdge"
    /\ last.a # last.b
    /\ typeIs(nodes, last.a, RESOURCE) /\ typeIs(nodes, last.b, RESOURCE)
    /\ last.alert = InvalidEdgeAlert

missingEndpoint(ns, s, d) == ~hasNode(ns, s) \/ ~hasNode(ns, d)

(***************************************************************************)
(* C10, as stated: handleAddEdge with a source or target id that names no  *)
(* vertex of the graph fails with a signal to the caller and leaves the    *)
(* graph unchanged.                                                        *)
(***************************************************************************)
C10_SignalsMissingEndpoint ==
    [][(addEdgeStep /\ missingEndpoint(nodes, last'.a, last'.b)) =>
            /\ edges' = edges
            /\ nodes' = nodes
            /\ last'.alert # ""]_vars

(***************************************************************************)
(* C10, amended: handleAddEdge with a source or target id that names no    *)
(* vertex of the graph returns without any signal (no alert) and leaves    *)
(* the graph unchanged.                                                    *)
(***************************************************************************)
C10_MissingEndpointIgnored ==
    [][(addEdgeStep /\ missingEndpoint(nodes, last'.a, last'.b)) =>
            /\ edges' = edges
            /\ nodes' = nodes
            /\ last'.alert = ""]_vars

\* a connection to a vertex that was removed was attempted
C10_Witness ==
    /\ last.op = "handleAddEdge"
    /\ ~hasNode(nodes, last.a)
    /\ hasNode(nodes, last.b)
    /\ last.alert = ""

(***************************************************************************)
(* C11: handleAddEdge for an ordered (source, target) pair that already    *)
(* has an edge is ignored without an alert and leaves the edge set (and    *)
(* the vertex set) unchanged; and in every state reached from the default  *)
(* instance no two edges have the same source and the same target.         *)
(***************************************************************************)
NoParallelEdges ==
    \A i, j \in 1..Len(edges) :
        (edges[i].source = edges[j].source /\ edges[i].target = edges[j].target) => i = j

C11_IdempotentConnect ==
    /\ []NoParallelEdges
    /\ [][(addEdgeStep /\ hasEdge(edges, last'.a, last'.b)) =>
            /\ edges' = edges
            /\ nodes' = nodes
            /\ last'.alert = ""]_vars

\* an edge added by handleAddEdge was requested once more
C11_Witness ==
    /\ last.op = "handleAddEdge"
    /\ last.branch = "duplicate"
    /\ \E i \in 1..Len(edges) :
            /\ edges[i].source = last.a /\ edges[i].target = last.b
            /\ edges[i].id \in {newEdgeId(t) : t \in Times}


(***************************************************************************)
(* C12: handleRemoveNode(id) removes the vertex id and exactly the edges   *)
(* whose source or target is id: every such edge is removed, and every     *)
(* other vertex and every other edge is left in place, in its order.       *)
(***************************************************************************)
RECURSIVE IsSublistOf(_, _)
\* a is b with elements left out, order and multiplicity kept
IsSublistOf(a, b) ==
    IF Len(a) = 0 THEN TRUE
    ELSE IF Len(b) = 0 THEN FALSE
    ELSE IF a[1] = b[1] THEN IsSublistOf(Tail(a), Tail(b))
    ELSE IsSublistOf(a, Tail(b))

incident(e, id) == e.source = id \/ e.target = id

\* this step is handleRemoveNode(last'.a)
removeNodeStep == ops' = ops + 1 /\ last'.op = "handleRemoveNode"

C12_CascadingRemoval ==
    [][removeNodeStep =>
        LET id == last'.a IN
        /\ ~hasNode(nodes', id)
        /\ IsSublistOf(nodes', nodes)
        /\ Len(nodes') = Len(nodes) - Cardinality({i \in 1..Len(nodes) : nodes[i].id = id})
        /\ \A i \in 1..Len(edges') : ~incident(edges'[i], id)
        /\ IsSublistOf(edges', edges)
        /\ Len(edges') = Len(edges)
                - Cardinality({i \in 1..Len(edges) : incident(edges[i], id)})]_vars

\* P1 was removed from the default instance: its incoming edge e1 and its
\* outgoing edge e2 went with it, e3 and the three other vertices stayed
C12_Witness ==
    /\ last.op = "handleRemoveNode" /\ last.a = "P1" /\ last.branch = "removed"
    /\ ops = 1
    /\ nodes = << Node("P2", PROCESS), Node("R1", RESOURCE), Node("R2", RESOURCE) >>
    /\ edges = << Edge("e3", "R2", "P2") >>

(***************************************************************************)
(* C13: in every state reached from the default instance by add-vertex,    *)
(* remove-vertex, add-edge, remove-edge and reset, the source and the      *)
(* target of every edge are ids of vertices present in the graph.          *)
(***************************************************************************)
C13_ReferentialIntegrity ==
    \A i \in 1..Len(edges) :
        hasNode(nodes, edges[i].source) /\ hasNode(nodes, edges[i].target)

\* a vertex of the default instance was removed with some of the edges
C13_Witness ==
    /\ last.op = "handleRemoveNode" /\ last.branch = "removed"
    /\ ops = 1
    /\ Len(edges) >= 1
    /\ Len(edges) < Len(createInitialEdges)

(***************************************************************************)
(* C14: in every reachable state every edge connects one PROCESS vertex    *)
(* and one RESOURCE vertex, whichever the direction; so no edge joins two  *)
(* vertices of one type and no edge is a self-loop.                        *)
(***************************************************************************)
C14_TypeHeterogeneity ==
    \A i \in 1..Len(edges) :
        LET s == edges[i].source
            d == edges[i].target
        IN  /\ s # d
            /\ \/ KindOf(nodes, s) = {PROCESS} /\ KindOf(nodes, d) = {RESOURCE}
               \/ KindOf(nodes, s) = {RESOURCE} /\ KindOf(nodes, d) = {PROCESS}

\* an edge was added to the default instance by handleAddEdge
C14_Witness ==
    /\ last.op = "handleAddEdge" /\ last.branch = "added"
    /\ hasEdge(edges, last.a, last.b)
    /\ Len(edges) = Len(createInitialEdges) + 1

(***************************************************************************)
(* C15: the id handleAddNode gives a new vertex is not in use: in every    *)
(* state reached by add-vertex and remove-vertex operations, at whatever   *)
(* times they happen, no two live vertices have the same id.               *)
(***************************************************************************)
C15_NodeIdsUnique ==
    \A i, j \in 1..Len(nodes) : nodes[i].id = nodes[j].id => i = j

(***************************************************************************)
(* C16: in every reachable state no two live edges have the same id (so    *)
(* that handleRemoveEdge(id) removes one edge, the one named id).          *)
(***************************************************************************)
C16_EdgeIdsUnique ==
    \A i, j \in 1..Len(edges) : edges[i].id = edges[j].id => i = j

(***************************************************************************)
(* C17: handleRemoveNode(id) with an id that names no live vertex, and     *)
(* handleRemoveEdge(id) with an id that names no live edge, change nothing *)
(* in the graph: the vertex list and the edge list stay as they were.      *)
(***************************************************************************)
hasEdgeId(es, id) == \E i \in 1..Len(es) : es[i].id = id

\* this step is handleRemoveEdge(last'.a)
removeEdgeStep == ops' = ops + 1 /\ last'.op = "handleRemoveEdge"

C17_AbsentRemovalNoOp ==
    [][/\ (removeNodeStep /\ ~hasNode(nodes, last'.a)) => (nodes' = nodes /\ edges' = edges)
       /\ (removeEdgeStep /\ ~hasEdgeId(edges, last'.a)) => (nodes' = nodes /\ edges' = edges)
      ]_vars

\* an edge that was already removed was removed again, the graph keeping
\* vertices and edges
C17_Witness ==
    /\ last.op = "handleRemoveEdge" /\ last.branch = "absent"
    /\ ~hasEdgeId(edges, last.a)
    /\ Len(edges) >= 1
    /\ Len(nodes) >= 1

(***************************************************************************)
(* C18: a failure of analyzeWithGemini (of the construction of the client  *)
(* or of the remote call) is reported as text and does not propagate: the  *)
(* call resolves to a string, the message of the service for a failure,    *)
(* and runDetection then stores that string as the analysis, keeps the     *)
(* detection result and the graph, and ends with isAnalyzing = false.      *)
(***************************************************************************)
\* this step is the rest of runDetection after an awaited call settled
resolvedStep == last'.op = "analysisResolved" /\ Len(pending') = Len(pending) - 1

C18_AdvisoryFailureIsText ==
    [][resolvedStep =>
        /\ aiAnalysis' # ""
        /\ (last'.branch = "error" => aiAnalysis' = ServiceErrorText)
        /\ isAnalyzing' = FALSE
        /\ result' = result
        /\ nodes' = nodes /\ edges' = edges]_vars

\* the call made for a detected deadlock failed and the failure is on display
C18_Witness ==
    /\ last.op = "analysisResolved" /\ last.branch = "error"
    /\ aiAnalysis = ServiceErrorText
    /\ ~result.isNull /\ result.hasDeadlock
    /\ pending = <<>>
    /\ ~isAnalyzing

(***************************************************************************)
(* C19: handleReset, from whatever reachable state, leaves the default     *)
(* instance - the vertices P1, P2 (PROCESS) and R1, R2 (RESOURCE) and the  *)
(* three edges R1->P1, P1->R2, R2->P2 - and no detection result (null).    *)
(***************************************************************************)
\* this step is handleReset
resetStep == ops' = ops + 1 /\ last'.op = "handleReset"

C19_ResetRestoresDefault ==
    [][resetStep =>
        /\ Len(nodes') = 4
        /\ nodeIds(nodes') = {"P1", "P2", "R1", "R2"}
        /\ typeIs(nodes', "P1", PROCESS) /\ typeIs(nodes', "P2", PROCESS)
        /\ typeIs(nodes', "R1", RESOURCE) /\ typeIs(nodes', "R2", RESOURCE)
        /\ Len(edges') = 3
        /\ edgePairs(edges') = WaitChain
        /\ result'.isNull]_vars

\* a reset after a deadlock was detected on an edited graph, the analysis
\* still awaited
C19_Witness ==
    /\ last.op = "handleReset"
    /\ pending # <<>>
    /\ result.isNull
    /\ edgePairs(edges) = WaitChain

(***************************************************************************)
(* C20: a detection run terminates on every finite graph - cyclic or       *)
(* acyclic, with parallel edges, with edges whose source or target is not  *)
(* a vertex - and returns what detectDeadlock returns; during the run no   *)
(* id is entered by dfs (marked visited and pushed onto the path) more     *)
(* than once, and a neighbour that is visited and off the recursion stack  *)
(* is skipped: the loop moves on without a call.                           *)
(***************************************************************************)
NoDuplicates(s) == \A i, j \in 1..Len(s) : s[i] = s[j] => i = j

fullyExplored(v) == v \in run.w.visited /\ v \notin run.w.recursionStack

C20_RunTerminates ==
    /\ <>(run.pc = "done")
    /\ [](run.pc = "done" => result = detectDeadlock(nodes, edges))
    /\ [](NoDuplicates(run.entered) /\ Range(run.entered) = run.w.visited)
    /\ [][(inLoopBody /\ fullyExplored(neighbor)) =>
            /\ run'.entered = run.entered
            /\ run'.w = run.w
            /\ run'.pc = "dfs"
            /\ Len(run'.frames) = Len(run.frames)]_vars

\* a finished run without a cycle on a graph where a vertex has two edges to
\* one target, the second of which found the target fully explored, and an
\* edge to an id that is not a vertex, which was entered
C20_Witness ==
    /\ run.pc = "done" /\ ~result.hasDeadlock
    /\ \E i, j \in 1..Len(edges) :
            /\ i # j
            /\ edges[i].source = edges[j].source /\ edges[i].target = edges[j].target
            /\ hasNode(nodes, edges[i].source)
    /\ \E i \in 1..Len(edges) :
            /\ hasNode(nodes, edges[i].source)
            /\ ~hasNode(nodes, edges[i].target)
            /\ edges[i].target \in Range(run.entered)

(***************************************************************************)
(* C21: edge multiplicity does not influence detection: for every graph,   *)
(* appending to the edge list a second edge with the source and target of  *)
(* an edge of the list leaves what detectDeadlock returns unchanged: the   *)
(* same hasDeadlock, the same cycle, the same involved lists.              *)
(***************************************************************************)
\* this step appended one edge and detected on the longer list
parallelEdgeStep == calls' = calls + 1 /\ Len(edges') = Len(edges) + 1

C21_ParallelEdgeRedundant ==
    [][parallelEdgeStep =>
        /\ hasEdge(edges, edges'[Len(edges')].source, edges'[Len(edges')].target)
        /\ SubSeq(edges', 1, Len(edges)) = edges
        /\ result'.hasDeadlock = result.hasDeadlock
        /\ result'.cycle = result.cycle
        /\ result'.involvedProcesses = result.involvedProcesses
        /\ result'.involvedResources = result.involvedResources]_vars

\* a deadlock detected again after an edge of its cycle was doubled, on a list
\* longer than any initial one
C21_Witness ==
    /\ calls >= 2
    /\ Len(edges) = MaxEdges + 1
    /\ result.hasDeadlock /\ Len(result.cycle) >= 2
    /\ LET d == edges[Len(edges)] IN
        /\ hasEdge(SubSeq(edges, 1, Len(edges) - 1), d.source, d.target)
        /\ \E k \in 1..Len(result.cycle) :
                /\ result.cycle[k] = d.source
                /\ result.cycle[(k % Len(result.cycle)) + 1] = d.target

(***************************************************************************)
(* C22: under any interleaving of detections, graph edits, resets and      *)
(* arrivals of advisory responses, once no advisory request is in flight   *)
(* the advisory text is that of the detection result stored last: empty    *)
(* when the result was cleared by a reset (or none was stored), the "No    *)
(* deadlock detected" message when the result has no deadlock, and a text  *)
(* the advisory call gives for that result when it has one; the response   *)
(* to an earlier detection does not replace it.                            *)
(***************************************************************************)
C22_AdvisoryMatchesResult ==
    pending = <<>> =>
        IF result.isNull THEN aiAnalysis = ""
        ELSE IF ~result.hasDeadlock THEN aiAnalysis = NoDeadlockText
        ELSE aiAnalysis \in {analysisText(result, outcome) : outcome \in Outcomes}

====
